---------------------------- MODULE Spec2Model ----------------------------
(***************************************************************************)
(* A model of the PV self-consumption repository:                          *)
(*   scripts/neural_network_training_pytorch.py  flattener, train_model,   *)
(*       cross_validate_model, train_final_model, main                     *)
(*   scripts/predict_self_consumption.py         predict_self_consumption  *)
(*   test_curl_requests.py                       test_single_case,         *)
(*       test_api_async                                                    *)
(*   scripts/generate_synthetic_dataset.py       load_model_and_scaler,    *)
(*       predict_batch_self_consumption,                                   *)
(*       generate_comprehensive_synthetic_dataset                          *)
(*                                                                         *)
(* Five programs share the module, each with its own specification:       *)
(*   SpecFlatten   load_and_flatten_mcs_data over a library of datasets    *)
(*   SpecPredict   predict_self_consumption over a set of calls            *)
(*   Spec          main(): every validation loss, one shuffle outcome      *)
(*   SpecData      main(): every shuffle outcome, one validation loss      *)
(*   SpecApi       test_api_async and its tasks, every interleaving        *)
(*   SpecGen       generate_comprehensive_synthetic_dataset                *)
(*   SpecNetwork   any one of the programs that run the network            *)
(*   FairSpec      Spec with weak fairness of main()'s steps               *)
(*   FairSpecApi   SpecApi under a fair event loop                         *)
(* The variables of the programs a specification does not run stay at      *)
(* their idle values.                                                      *)
(***************************************************************************)
EXTENDS Integers, Sequences, FiniteSets, TLC

(***************************************************************************)
(* Bounds of the model.                                                    *)
(***************************************************************************)
\* groups in an input dataset
MaxGroups == 2
\* battery entries in a PV band
MaxBatteries == 2
\* rows of the flattened table main() trains on
MaxRows == 7
\* finite validation losses are 0..MaxLoss
MaxLoss == 2
\* num_epochs of a cross-validation fold (the code passes 100)
EpochsCV == 4
\* num_epochs of the final model (the code passes 150)
EpochsFinal == 5
\* patience of train_model (the code's default is 10)
Patience == 2

\* test cases handed to test_api_async
MaxCases == 3
\* max_concurrent of test_api_async is 1..MaxConcurrent (the default is 10)
MaxConcurrent == 2

\* values in each parameter range of the synthetic dataset generator
MaxValues == 2
\* batch_size of the generator is 1..MaxBatchSize (the code's is 10000)
MaxBatchSize == 3

\* cross_validate_model(X, y, k_folds=5, ...)
k_folds == 5
\* DataLoader(..., batch_size=64, ...)
batch_size == 64

VARIABLES
    \* load_and_flatten_mcs_data
    data,               \* json.load(file): the groups, in the mapping's order
    flat_pc,            \* "idle" | "loop" | "returned" | "raised"
    flat_i,             \* groups the outer loop has finished
    flattened_data      \* the list of records

VARIABLES
    \* predict_self_consumption
    pred_pc,               \* "idle" | "call" | "load_model" | "load_scaler" |
                           \* "forward" | "returned" | "KeyError" |
                           \* "FileNotFoundError"
    pred_in,               \* the arguments of the call
    occupancy_normalized,  \* the local of that name, None before the lookup
    pred_model,            \* the weights load_state_dict put in the model
    pred_mode,             \* the model's mode: "train" | "eval"
    pred_scaler,           \* the scaler joblib.load returned
    prediction,            \* the value returned, None before
    \* the artifacts main() writes and the predictor reads
    final_pv_model_pth,    \* 'final_pv_model.pth': NoFile or weights
    feature_scaler_pkl     \* 'feature_scaler.pkl': NoFile or a fitted scaler

VARIABLES
    \* main() of neural_network_training_pytorch.py and what it calls
    pc,                 \* where main() is: "idle" | "start" | "scaled" |
                        \* "split" | "fold" | "train" | "validate" |
                        \* "load_best" | "returned" | "final" | "save" |
                        \* "done" | "raised"
    n_rows,             \* len(df): the rows are 1..n_rows
    scaler,             \* the StandardScaler: None, or the rows it was fit on
    X_train, X_test,    \* the rows of the two splits
    folds,              \* kf.split(X): the validation rows of each fold
    run,                \* the training run: 1..k_folds a fold, k_folds+1 final
    train_loader,       \* the rows of train_model's train_loader
    val_loader,         \* the rows of train_model's val_loader
    cv_scores,          \* the list of per-fold scores
    num_epochs, patience,   \* train_model's arguments
    epoch,              \* epochs of this run that have finished
    best_val_loss, patience_counter, val_losses,    \* train_model's locals
    model_weights,      \* the model's state_dict, by where it was produced
    model_mode,         \* "train" | "eval"
    forward_log,        \* the forward passes made so far: their kind and
                        \* the mode the model was in
    best_model_pth,     \* the file 'best_model.pth': NoFile or weights
    \* the environment of main()
    rng_free,           \* FALSE: the seeded shuffles are the identity
    loss_env            \* the values a validation loss takes

VARIABLES
    \* test_api_async and its test_single_case tasks
    api_pc,             \* test_api_async: "idle" | "create" | "sleep" |
                        \* "gather" | "returned" | "aborted"
    n_cases,            \* len(test_cases): the cases are 1..n_cases
    max_concurrent,
    loop_i,             \* the loop index i: tasks created so far
    semaphore,          \* the semaphore's value: free permits
    task_pc,            \* per task: "none" | "waiting" | "posted" |
                        \* "parsing" | "done"
    task_result,        \* per task: what the coroutine returned or raised
    outcome,            \* per case: what happened to its request
    results             \* the dict test_api_async returns

VARIABLES
    \* generate_comprehensive_synthetic_dataset
    gen_pc,             \* "idle" | "confirm" | "load" | "combine" | "batches"
                        \* | "returned" | "cancelled" | "FileNotFoundError"
    occupancy_days,     \* the four parameter ranges
    consumptions,
    pv_sizes,
    battery_sizes,
    gen_model,          \* the weights load_model_and_scaler loaded
    gen_mode,           \* the loaded model's mode
    gen_scaler,
    combinations,
    gen_batch_size,     \* batch_size
    gen_i,              \* the batch loop's index i
    gen_all_results     \* all_results

flatVars == <<data, flat_pc, flat_i, flattened_data>>
predVars == <<pred_pc, pred_in, occupancy_normalized, pred_model, pred_mode,
              pred_scaler, prediction>>
fileVars == <<final_pv_model_pth, feature_scaler_pkl>>

dataVars == <<n_rows, scaler, X_train, X_test, folds, rng_free, loss_env>>
trainVars == <<run, train_loader, val_loader, cv_scores, num_epochs, patience,
               epoch, best_val_loss, patience_counter, val_losses,
               model_weights, model_mode, forward_log, best_model_pth>>
pipeVars == <<pc, dataVars, trainVars>>

apiVars == <<api_pc, n_cases, max_concurrent, loop_i, semaphore, task_pc,
             task_result, outcome, results>>

genVars == <<gen_pc, occupancy_days, consumptions, pv_sizes, battery_sizes,
             gen_model, gen_mode, gen_scaler, combinations, gen_batch_size,
             gen_i, gen_all_results>>

vars == <<flatVars, predVars, fileVars, pipeVars, apiVars, genVars>>

(***************************************************************************)
(* Python numbers.  An int is exact; a float is held in hundredths, which  *)
(* is exact for every value the model computes (inputs have at most one    *)
(* decimal, the only divisions are by 2 and by 5.0).                       *)
(***************************************************************************)
I(n) == [k |-> "int", v |-> n]
F(h) == [k |-> "float", v |-> h]

\* the numeric value of a Python number, in hundredths
Hundredths(x) == IF x.k = "int" THEN x.v * 100 ELSE x.v

\* float(x)
PyFloat(x) == F(Hundredths(x))

\* a + b: int + int is an int, anything else a float
PyAdd(a, b) ==
    IF a.k = "int" /\ b.k = "int"
    THEN I(a.v + b.v)
    ELSE F(Hundredths(a) + Hundredths(b))

\* a / b: true division, always a float
PyTrueDiv(a, b) == F((Hundredths(a) * 100) \div Hundredths(b))

\* a == b on numbers: by value, whatever the types
NumEq(a, b) == Hundredths(a) = Hundredths(b)

RECURSIVE ConcatAll(_)
\* the concatenation of a sequence of sequences: what nested for-loops append
ConcatAll(ss) == IF ss = <<>> THEN <<>> ELSE Head(ss) \o ConcatAll(Tail(ss))

\* pat in s, on strings held as sequences of characters
Contains(pat, s) ==
    \E i \in 0..(Len(s) - Len(pat)) : SubSeq(s, i + 1, i + Len(pat)) = pat

(***************************************************************************)
(* The mode of a torch module.                                             *)
(***************************************************************************)
\* model.train(): the module and its dropout and batch-norm layers are
\* put in training mode
ModuleTrain(mode) == "train"

\* the mutant of ModuleEval: the call is missing, the mode stays
ModuleEvalMissing(mode) == mode

\* model.eval(): the module and its layers are put in inference mode
ModuleEval(mode) == "eval"

\* model(x): a forward pass of this kind in the model's current mode
ForwardPass(log, kind, mode) == log \cup {[kind |-> kind, mode |-> mode]}

(***************************************************************************)
(* The flattener: load_and_flatten_mcs_data.                               *)
(***************************************************************************)
PatHome == <<"H","o","m","e"," ","a","l","l"," ","d","a","y">>
PatHalf == <<"h","a","l","f"," ","t","h","e"," ","d","a","y">>
PatOut == <<"O","u","t"," ","d","u","r","i","n","g"," ","t","h","e"," ","d","a","y">>

\* the mutant of get_occupancy_info: half a day counted as 2 days
get_occupancy_info_two_days(group_data) ==
    LET first_group == group_data.consumption_ranges[1]
        occupancy_type == first_group.occupancy.type
    IN  IF Contains(PatHome, occupancy_type)
        THEN [type |-> "home_all_day", days |-> F(500)]
        ELSE IF Contains(PatHalf, occupancy_type)
        THEN [type |-> "in_half_the_day", days |-> F(200)]
        ELSE IF Contains(PatOut, occupancy_type)
        THEN [type |-> "out_during_day", days |-> F(0)]
        ELSE [type |-> "unknown", days |-> F(250)]

\* the mutant of get_occupancy_info: an unmatched descriptor counted as out
\* during the day
get_occupancy_info_unknown_out(group_data) ==
    LET first_group == group_data.consumption_ranges[1]
        occupancy_type == first_group.occupancy.type
    IN  IF Contains(PatHome, occupancy_type)
        THEN [type |-> "home_all_day", days |-> F(500)]
        ELSE IF Contains(PatHalf, occupancy_type)
        THEN [type |-> "in_half_the_day", days |-> F(250)]
        ELSE IF Contains(PatOut, occupancy_type)
        THEN [type |-> "out_during_day", days |-> F(0)]
        ELSE [type |-> "out_during_day", days |-> F(0)]

\* get_occupancy_info(group_data), called on a group with a first
\* consumption range (the caller raises IndexError otherwise)
get_occupancy_info(group_data) ==
    LET first_group == group_data.consumption_ranges[1]
        occupancy_type == first_group.occupancy.type
    IN  IF Contains(PatHome, occupancy_type)
        THEN [type |-> "home_all_day", days |-> F(500)]
        ELSE IF Contains(PatHalf, occupancy_type)
        THEN [type |-> "in_half_the_day", days |-> F(250)]
        ELSE IF Contains(PatOut, occupancy_type)
        THEN [type |-> "out_during_day", days |-> F(0)]
        ELSE [type |-> "unknown", days |-> F(250)]

\* the mutant of band_records: the PV band's lower edge for its midpoint
band_records_pv_min(occ, specific_consumption_mid, band) ==
    [b \in 1..Len(band.batteries) |->
        [occupancy_type |-> occ.type,
         occupancy_days_raw |-> occ.days,
         occupancy_days_normalized |-> PyTrueDiv(occ.days, F(500)),
         annual_consumption |-> specific_consumption_mid,
         pv_generation |-> PyFloat(band.pv_min),
         battery_size |-> PyFloat(band.batteries[b].size),
         self_consumption_percentage |->
             band.batteries[b].pv_generated_percentage]]

\* the records of one PV band: the body of `for band in ...` with its
\* inner loop over the batteries
band_records(occ, specific_consumption_mid, band) ==
    LET pv_generation == PyTrueDiv(PyAdd(band.pv_min, band.pv_max), I(2))
    IN  [b \in 1..Len(band.batteries) |->
            [occupancy_type |-> occ.type,
             occupancy_days_raw |-> occ.days,
             occupancy_days_normalized |-> PyTrueDiv(occ.days, F(500)),
             annual_consumption |-> specific_consumption_mid,
             pv_generation |-> pv_generation,
             battery_size |-> PyFloat(band.batteries[b].size),
             self_consumption_percentage |->
                 band.batteries[b].pv_generated_percentage]]

\* the records of one consumption range: the body of
\* `for consumption_group in group_data['consumption_ranges']`
range_records(occ, consumption_group) ==
    LET specific_consumption == consumption_group.annual_consumption
        specific_consumption_mid ==
            PyTrueDiv(PyAdd(specific_consumption.min, specific_consumption.max),
                      I(2))
    IN  ConcatAll([j \in 1..Len(consumption_group.bands) |->
            band_records(occ, specific_consumption_mid,
                         consumption_group.bands[j])])

\* the records one iteration of the outer loop appends
group_records(group_data) ==
    LET occ == get_occupancy_info(group_data)
    IN  ConcatAll([r \in 1..Len(group_data.consumption_ranges) |->
            range_records(occ, group_data.consumption_ranges[r])])

\* one iteration of `for group_id, group_data in data.items()`;
\* get_occupancy_info indexes consumption_ranges[0]: IndexError on a group
\* without consumption ranges, which nothing catches
FlattenGroup ==
    /\ flat_pc = "loop"
    /\ flat_i < Len(data)
    /\ LET group_data == data[flat_i + 1]
       IN  IF group_data.consumption_ranges = <<>>
           THEN /\ flat_pc' = "raised"
                /\ UNCHANGED <<flat_i, flattened_data>>
           ELSE /\ flattened_data' = flattened_data \o group_records(group_data)
                /\ flat_i' = flat_i + 1
                /\ flat_pc' = "loop"
    /\ UNCHANGED <<data, predVars, fileVars, pipeVars, apiVars, genVars>>

\* return pd.DataFrame(flattened_data)
FlattenReturn ==
    /\ flat_pc = "loop"
    /\ flat_i = Len(data)
    /\ flat_pc' = "returned"
    /\ UNCHANGED <<data, flat_i, flattened_data, predVars, fileVars, pipeVars, apiVars, genVars>>

(***************************************************************************)
(* The datasets the flattener is run on.                                   *)
(***************************************************************************)
DescHome == <<"H","o","m","e"," ","a","l","l"," ","d","a","y"," ","a","l","l"," ","y","e","a","r">>
DescHalf == <<"I","n"," ","h","a","l","f"," ","t","h","e"," ","d","a","y">>
DescOut == <<"O","u","t"," ","d","u","r","i","n","g"," ","t","h","e"," ","d","a","y">>
\* no pattern matches: the match is case-sensitive
DescLower == <<"h","o","m","e"," ","a","l","l"," ","d","a","y">>
\* two patterns match: the first test of the if-chain wins
DescBoth == <<"O","u","t"," ","d","u","r","i","n","g"," ","t","h","e"," ","d","a","y",","," ","H","o","m","e"," ","a","l","l"," ","d","a","y"," ","a","t"," ","w","e","e","k","e","n","d","s">>

\* the empty text
DescEmpty == <<>>

Descs == {DescHome, DescHalf, DescOut, DescLower, DescBoth, DescEmpty}

BatteryLib ==
    << [size |-> I(0), pv_generated_percentage |-> F(4500)],
       [size |-> I(5), pv_generated_percentage |-> F(6200)],
       [size |-> F(1350), pv_generated_percentage |-> I(70)],
       [size |-> I(20), pv_generated_percentage |-> F(9950)] >>

NBatteries == IF MaxBatteries < Len(BatteryLib) THEN MaxBatteries ELSE Len(BatteryLib)

PvBand(lo, hi, n) ==
    [pv_min |-> lo, pv_max |-> hi, batteries |-> SubSeq(BatteryLib, 1, n)]

BandLists ==
    {<<>>}
    \cup {<<PvBand(I(2000), I(4000), n)>> : n \in 0..NBatteries}
    \cup {<<PvBand(I(2000), I(4000), NBatteries), PvBand(I(0), F(150050), 1)>>}

ConsumptionRange(desc, lo, hi, bands) ==
    [occupancy |-> [type |-> desc],
     annual_consumption |-> [min |-> lo, max |-> hi],
     bands |-> bands]

\* the band lists every descriptor is combined with: the fullest single
\* band and the two-band list
FullBandLists == {bl \in BandLists : bl # <<>> /\ bl[1].batteries # <<>> /\ Len(bl[1].batteries) = NBatteries}

GroupLib ==
    {[consumption_ranges |-> <<>>]}
    \cup {[consumption_ranges |-> <<ConsumptionRange(DescHome, I(3000), I(5000), bl)>>] :
            bl \in BandLists}
    \cup {[consumption_ranges |-> <<ConsumptionRange(d, I(3000), I(5000), bl)>>] :
            d \in Descs, bl \in FullBandLists}
    \cup {[consumption_ranges |->
            <<ConsumptionRange(d1, I(3000), I(5000), <<PvBand(I(2000), I(4000), 1)>>),
              ConsumptionRange(d2, I(1500), I(2001), <<PvBand(I(0), F(150050), 1)>>)>>] :
            d1 \in {DescHome, DescOut}, d2 \in {DescHome, DescOut}}

Datasets == UNION {[1..n -> GroupLib] : n \in 0..MaxGroups}

(***************************************************************************)
(* The predictor: predict_self_consumption.                                *)
(***************************************************************************)
None == [k |-> "None", v |-> 0]
NoFile == [k |-> "NoFile"]

\* occupancy_mapping, the dict literal
occupancy_mapping ==
    [t \in {"home_all_day", "in_half_the_day", "out_during_day"} |->
        CASE t = "home_all_day" -> F(100)
          [] t = "in_half_the_day" -> F(50)
          [] t = "out_during_day" -> F(0)]

\* the mutant of occupancy_lookup: dict.get with the flattener's default
occupancy_lookup_default(occupancy_type) ==
    IF occupancy_type \in DOMAIN occupancy_mapping
    THEN [raised |-> FALSE, value |-> occupancy_mapping[occupancy_type]]
    ELSE [raised |-> FALSE, value |-> F(50)]

\* occupancy_mapping[occupancy_type]: KeyError on a key the dict lacks
occupancy_lookup(occupancy_type) ==
    IF occupancy_type \in DOMAIN occupancy_mapping
    THEN [raised |-> FALSE, value |-> occupancy_mapping[occupancy_type]]
    ELSE [raised |-> TRUE, value |-> None]

\* occupancy_normalized = occupancy_mapping[occupancy_type]
PredictLookup ==
    /\ pred_pc = "call"
    /\ LET got == occupancy_lookup(pred_in.occupancy_type)
       IN  /\ occupancy_normalized' = got.value
           /\ pred_pc' = IF got.raised THEN "KeyError" ELSE "load_model"
    /\ UNCHANGED <<pred_in, pred_model, pred_mode, pred_scaler, prediction,
                   flatVars, fileVars, pipeVars, apiVars, genVars>>

\* model = PVSelfConsumptionNet(); model.load_state_dict(torch.load(...));
\* model.eval()
PredictLoadModel ==
    /\ pred_pc = "load_model"
    /\ IF final_pv_model_pth = NoFile
       THEN /\ pred_pc' = "FileNotFoundError"
            /\ UNCHANGED <<pred_model, pred_mode>>
       ELSE /\ pred_model' = final_pv_model_pth
            /\ pred_mode' = ModuleEval(pred_mode)
            /\ pred_pc' = "load_scaler"
    /\ UNCHANGED <<pred_in, occupancy_normalized, pred_scaler, prediction,
                   flatVars, fileVars, pipeVars, apiVars, genVars>>

\* scaler = joblib.load('feature_scaler.pkl')
PredictLoadScaler ==
    /\ pred_pc = "load_scaler"
    /\ IF feature_scaler_pkl = NoFile
       THEN /\ pred_pc' = "FileNotFoundError"
            /\ UNCHANGED pred_scaler
       ELSE /\ pred_scaler' = feature_scaler_pkl
            /\ pred_pc' = "forward"
    /\ UNCHANGED <<pred_in, occupancy_normalized, pred_model, pred_mode,
                   prediction, flatVars, fileVars, pipeVars, apiVars, genVars>>

\* features, scaler.transform, model(features_tensor).item(), return: the
\* prediction is the value the loaded weights give the scaled features in
\* the model's current mode
PredictForward ==
    /\ pred_pc = "forward"
    /\ prediction' =
          [k |-> "prediction",
           features |-> <<occupancy_normalized, pred_in.annual_consumption,
                          pred_in.pv_generation, pred_in.battery_size>>,
           scaler |-> pred_scaler,
           weights |-> pred_model,
           mode |-> pred_mode]
    /\ pred_pc' = "returned"
    /\ UNCHANGED <<pred_in, occupancy_normalized, pred_model, pred_mode,
                   pred_scaler, flatVars, fileVars, pipeVars, apiVars, genVars>>

\* the calls the predictor is run on
OccupancyArgs ==
    {"home_all_day", "in_half_the_day", "out_during_day", "unknown",
     "full_time_remote", "Home all day", "HOME_ALL_DAY", ""}

PredictArgs ==
    [occupancy_type : OccupancyArgs,
     annual_consumption : {I(4000), F(350050)},
     pv_generation : {I(3000), I(0)},
     battery_size : {F(800), I(0)}]

\* what a finished run of main() left on disk, as far as the predictor
\* can tell one file from another
SavedModels == {NoFile, [k |-> "weights", run |-> 6, epoch |-> 1]}
SavedScalers == {NoFile, [k |-> "scaler", rows |-> {1, 2}]}

InitPredict ==
    /\ pred_pc = "call"
    /\ pred_in \in PredictArgs
    /\ occupancy_normalized = None
    /\ pred_model = None
    /\ pred_mode = "train"
    /\ pred_scaler = None
    /\ prediction = None

IdlePredict ==
    /\ pred_pc = "idle"
    /\ pred_in = None
    /\ occupancy_normalized = None
    /\ pred_model = None
    /\ pred_mode = "train"
    /\ pred_scaler = None
    /\ prediction = None

IdleFiles ==
    /\ final_pv_model_pth = NoFile
    /\ feature_scaler_pkl = NoFile

InitFlatten ==
    /\ data \in Datasets
    /\ flat_pc = "loop"
    /\ flat_i = 0
    /\ flattened_data = <<>>

IdleFlatten ==
    /\ data = <<>>
    /\ flat_pc = "idle"
    /\ flat_i = 0
    /\ flattened_data = <<>>

(***************************************************************************)
(* The training pipeline: main(), cross_validate_model, train_final_model  *)
(* and train_model.                                                        *)
(*                                                                         *)
(* Weights are known by where they were produced: W(r, e) is the           *)
(* state_dict of run r's model after e training passes (e = 0: as          *)
(* initialised).  Run 0 is an earlier execution of the script, whose       *)
(* 'best_model.pth' nothing deletes.                                       *)
(*                                                                         *)
(* A validation loss is val_loss, the sum of loss.item() over the batches  *)
(* of val_loader: a float that is finite and >= 0, +inf or nan.  Finite    *)
(* losses are 0..MaxLoss.  val_losses holds val_loss / len(val_loader);    *)
(* every loader of the model has at most batch_size rows, hence one batch, *)
(* and the two are the same number.                                        *)
(***************************************************************************)
Inf == MaxLoss + 1
NaN == MaxLoss + 2
Floats == (0..MaxLoss) \cup {Inf, NaN}

\* a < b on floats: false as soon as one side is nan
PyLess(a, b) == a # NaN /\ b # NaN /\ a < b

W(r, e) == [k |-> "weights", run |-> r, epoch |-> e]
StalePrior == W(0, 1)

Rows == 1..n_rows
NumRuns == k_folds + 1

\* the subsets of S with m elements
SubsetsOfSize(S, m) == {T \in SUBSET S : Cardinality(T) = m}

RECURSIVE Partitions(_, _)
\* the ways to cut S into consecutive parts of the given sizes
Partitions(S, sizes) ==
    IF sizes = <<>>
    THEN {<<>>}
    ELSE UNION {{<<T>> \o rest : rest \in Partitions(S \ T, Tail(sizes))} :
                    T \in SubsetsOfSize(S, Head(sizes))}

\* the first m elements of S, in increasing order
FirstOf(S, m) == {x \in S : Cardinality({y \in S : y < x}) < m}

RECURSIVE InOrder(_, _)
\* S cut into consecutive parts of the given sizes, in increasing order
InOrder(S, sizes) ==
    IF sizes = <<>>
    THEN <<>>
    ELSE <<FirstOf(S, Head(sizes))>>
            \o InOrder(S \ FirstOf(S, Head(sizes)), Tail(sizes))

\* scaler.fit_transform(X): the rows the scaler is fit on
ScalerFitRows == Rows

\* train_test_split(..., test_size=0.2): n_test = ceil(0.2 * n_samples)
NTest(n) == (n + 4) \div 5

\* the test rows train_test_split may pick: the first n_test of its
\* seeded permutation
SplitChoices ==
    IF rng_free
    THEN SubsetsOfSize(Rows, NTest(n_rows))
    ELSE {FirstOf(Rows, NTest(n_rows))}

\* the mutant of CvInput: the whole scaled table handed to cross-validation
CvInputAll == X_train \cup X_test

\* cross_validate_model(X_train, y_train): the rows it is given
CvInput == X_train

\* KFold: the first n % k folds have n // k + 1 rows, the others n // k
FoldSizes(n) ==
    [f \in 1..k_folds |-> (n \div k_folds) + (IF f <= n % k_folds THEN 1 ELSE 0)]

\* the validation folds KFold(shuffle=True, random_state=42) may yield
KFoldChoices(S) ==
    IF rng_free
    THEN Partitions(S, FoldSizes(Cardinality(S)))
    ELSE {InOrder(S, FoldSizes(Cardinality(S)))}

\* the mutant of Improved: a tie counts as an improvement
ImprovedOrEqual(val_loss, best) == val_loss # NaN /\ best # NaN /\ val_loss <= best

\* if val_loss < best_val_loss
Improved(val_loss, best) == PyLess(val_loss, best)

\* the mutant of NextPatienceCounter: an improvement does not reset it
NextPatienceCounterNoReset(improved, counter) == counter + 1

\* patience_counter = 0 on an improvement, patience_counter += 1 otherwise
NextPatienceCounter(improved, counter) == IF improved THEN 0 ELSE counter + 1

\* the mutant of ShouldStop: one epoch late
ShouldStopLate(counter, bound) == counter > bound

\* if patience_counter >= patience: break
ShouldStop(counter, bound) == counter >= bound

\* the mutant of RangeHasNext: one epoch more than num_epochs
RangeHasNextInclusive(done, stop) == done <= stop

\* for epoch in range(num_epochs): there is a next epoch after `done` epochs
RangeHasNext(done, stop) == done < stop

\* the mutant of LoadedWeights: the model keeps its last weights
LoadedWeightsLast(file, current) == current

\* model.load_state_dict(torch.load('best_model.pth')): the weights the
\* model holds afterwards
LoadedWeights(file, current) == file

\* len(loader): the batches of a DataLoader without drop_last
NumBatches(rows) == (Cardinality(rows) + batch_size - 1) \div batch_size

\* the last batch of a shuffled loader has one row: BatchNorm1d refuses it
\* in training mode (ValueError)
HasSingletonBatch(rows) == Cardinality(rows) % batch_size = 1

\* X_scaled = scaler.fit_transform(X); an empty table has no columns
FitScaler ==
    /\ pc = "start"
    /\ IF n_rows = 0
       THEN /\ pc' = "raised"
            /\ UNCHANGED scaler
       ELSE /\ scaler' = [k |-> "scaler", rows |-> ScalerFitRows]
            /\ pc' = "scaled"
    /\ UNCHANGED <<n_rows, X_train, X_test, folds, rng_free, loss_env,
                   trainVars, flatVars, predVars, fileVars, apiVars, genVars>>

\* train_test_split(X_scaled, y, test_size=0.2, random_state=42):
\* ValueError when the training split would be empty
TrainTestSplit ==
    /\ pc = "scaled"
    /\ IF n_rows - NTest(n_rows) = 0
       THEN /\ pc' = "raised"
            /\ UNCHANGED <<X_train, X_test>>
       ELSE \E test \in SplitChoices :
                /\ X_test' = test
                /\ X_train' = Rows \ test
                /\ pc' = "split"
    /\ UNCHANGED <<n_rows, scaler, folds, rng_free, loss_env,
                   trainVars, flatVars, predVars, fileVars, apiVars, genVars>>

\* cross_validate_model(X_train, y_train) up to the first fold of
\* kf.split(X): ValueError with fewer samples than splits
BeginCV ==
    /\ pc = "split"
    /\ IF Cardinality(CvInput) < k_folds
       THEN /\ pc' = "raised"
            /\ UNCHANGED <<folds, cv_scores>>
       ELSE \E kf \in KFoldChoices(CvInput) :
                /\ folds' = kf
                /\ cv_scores' = <<>>
                /\ pc' = "fold"
    /\ UNCHANGED <<n_rows, scaler, X_train, X_test, rng_free, loss_env,
                   run, train_loader, val_loader, num_epochs, patience,
                   epoch, best_val_loss, patience_counter, val_losses,
                   model_weights, model_mode, forward_log, best_model_pth,
                   flatVars, predVars, fileVars, apiVars, genVars>>

\* a call of train_model(model, train_loader, val_loader, ..., num_epochs)
\* on a freshly initialised model, up to the first epoch
EnterTrainModel(r, train_rows, val_rows, epochs) ==
    /\ run' = r
    /\ train_loader' = train_rows
    /\ val_loader' = val_rows
    /\ model_weights' = W(r, 0)
    /\ model_mode' = "train"
    /\ num_epochs' = epochs
    /\ patience' = Patience
    /\ epoch' = 0
    /\ val_losses' = <<>>
    /\ best_val_loss' = Inf
    /\ patience_counter' = 0
    /\ pc' = IF RangeHasNext(0, epochs) THEN "train" ELSE "load_best"

\* the next fold of the loop in cross_validate_model: loaders, a new model,
\* train_model(..., num_epochs=100)
FoldStart ==
    /\ pc = "fold"
    /\ run < k_folds
    /\ EnterTrainModel(run + 1, CvInput \ folds[run + 1], folds[run + 1],
                       EpochsCV)
    /\ UNCHANGED <<dataVars, cv_scores, forward_log, best_model_pth,
                   flatVars, predVars, fileVars, apiVars, genVars>>

\* the training pass of an epoch: model.train(), one optimizer step per
\* batch
TrainPass ==
    /\ pc = "train"
    /\ model_mode' = ModuleTrain(model_mode)
    /\ forward_log' = ForwardPass(forward_log, "training", model_mode')
    /\ IF HasSingletonBatch(train_loader)
       THEN /\ pc' = "raised"
            /\ UNCHANGED model_weights
       ELSE /\ model_weights' = W(run, epoch + 1)
            /\ pc' = "validate"
    /\ UNCHANGED <<dataVars, run, train_loader, val_loader, cv_scores,
                   num_epochs, patience, epoch, best_val_loss,
                   patience_counter, val_losses, best_model_pth,
                   flatVars, predVars, fileVars, apiVars, genVars>>

\* the rest of the epoch: model.eval(), the validation pass, the early
\* stopping update (save on improvement, count otherwise) and the break
ValidatePass ==
    /\ pc = "validate"
    /\ \E val_loss \in loss_env :
        LET improved == Improved(val_loss, best_val_loss)
            counter == NextPatienceCounter(improved, patience_counter)
        IN  /\ model_mode' = ModuleEval(model_mode)
            /\ forward_log' =
                  ForwardPass(forward_log, "validation", model_mode')
            /\ val_losses' = Append(val_losses, val_loss)
            /\ best_val_loss' = IF improved THEN val_loss ELSE best_val_loss
            /\ patience_counter' = counter
            /\ best_model_pth' =
                 IF improved THEN model_weights ELSE best_model_pth
            /\ epoch' = epoch + 1
            /\ pc' = IF ShouldStop(counter, patience) THEN "load_best"
                     ELSE IF RangeHasNext(epoch + 1, num_epochs) THEN "train"
                     ELSE "load_best"
    /\ UNCHANGED <<dataVars, run, train_loader, val_loader, cv_scores,
                   num_epochs, patience, model_weights,
                   flatVars, predVars, fileVars, apiVars, genVars>>

\* model.load_state_dict(torch.load('best_model.pth')); return:
\* FileNotFoundError when the file does not exist
LoadBest ==
    /\ pc = "load_best"
    /\ IF best_model_pth = NoFile
       THEN /\ pc' = "raised"
            /\ UNCHANGED model_weights
       ELSE /\ model_weights' = LoadedWeights(best_model_pth, model_weights)
            /\ pc' = "returned"
    /\ UNCHANGED <<dataVars, run, train_loader, val_loader, cv_scores,
                   num_epochs, patience, epoch, best_val_loss,
                   patience_counter, val_losses, model_mode, forward_log,
                   best_model_pth,
                   flatVars, predVars, fileVars, apiVars, genVars>>

\* the fold's evaluation: model.eval(), predictions on the validation
\* rows, cv_scores.append
FoldEvaluate ==
    /\ pc = "returned"
    /\ run <= k_folds
    /\ model_mode' = ModuleEval(model_mode)
    /\ forward_log' = ForwardPass(forward_log, "fold_evaluation", model_mode')
    /\ cv_scores' = Append(cv_scores, [fold |-> run])
    /\ pc' = "fold"
    /\ UNCHANGED <<dataVars, run, train_loader, val_loader, num_epochs,
                   patience, epoch, best_val_loss, patience_counter,
                   val_losses, model_weights, best_model_pth,
                   flatVars, predVars, fileVars, apiVars, genVars>>

\* train_final_model(X_train, y_train, X_test, y_test) up to the first
\* epoch: the test rows are the val_loader of train_model(..., num_epochs=150)
FinalStart ==
    /\ pc = "fold"
    /\ run = k_folds
    /\ EnterTrainModel(k_folds + 1, X_train, X_test, EpochsFinal)
    /\ UNCHANGED <<dataVars, cv_scores, forward_log, best_model_pth,
                   flatVars, predVars, fileVars, apiVars, genVars>>

\* the final evaluation in train_final_model and main's metrics
FinalEvaluate ==
    /\ pc = "returned"
    /\ run = k_folds + 1
    /\ model_mode' = ModuleEval(model_mode)
    /\ forward_log' = ForwardPass(forward_log, "final_evaluation", model_mode')
    /\ pc' = "save"
    /\ UNCHANGED <<dataVars, run, train_loader, val_loader, cv_scores,
                   num_epochs, patience, epoch, best_val_loss,
                   patience_counter, val_losses, model_weights,
                   best_model_pth, flatVars, predVars, fileVars, apiVars, genVars>>

\* generate_synthetic_data_with_model, torch.save(final_model.state_dict(),
\* 'final_pv_model.pth'), joblib.dump(scaler, 'feature_scaler.pkl')
SaveArtifacts ==
    /\ pc = "save"
    /\ model_mode' = ModuleEval(model_mode)
    /\ forward_log' = ForwardPass(forward_log, "synthetic", model_mode')
    /\ final_pv_model_pth' = model_weights
    /\ feature_scaler_pkl' = scaler
    /\ pc' = "done"
    /\ UNCHANGED <<dataVars, run, train_loader, val_loader, cv_scores,
                   num_epochs, patience, epoch, best_val_loss,
                   patience_counter, val_losses, model_weights,
                   best_model_pth, flatVars, predVars, apiVars, genVars>>

\* main() about to scale the table, in a directory that holds no
\* checkpoint or the one an earlier execution left
InitPipeline ==
    /\ pc = "start"
    /\ scaler = None
    /\ X_train = {}
    /\ X_test = {}
    /\ folds = <<>>
    /\ run = 0
    /\ train_loader = {}
    /\ val_loader = {}
    /\ cv_scores = <<>>
    /\ num_epochs = 0
    /\ patience = 0
    /\ epoch = 0
    /\ best_val_loss = Inf
    /\ patience_counter = 0
    /\ val_losses = <<>>
    /\ model_weights = None
    /\ model_mode = "train"
    /\ forward_log = {}
    /\ best_model_pth \in {NoFile, StalePrior}

IdlePipeline ==
    /\ pc = "idle"
    /\ n_rows = 0
    /\ rng_free = FALSE
    /\ loss_env = {}
    /\ scaler = None
    /\ X_train = {}
    /\ X_test = {}
    /\ folds = <<>>
    /\ run = 0
    /\ train_loader = {}
    /\ val_loader = {}
    /\ cv_scores = <<>>
    /\ num_epochs = 0
    /\ patience = 0
    /\ epoch = 0
    /\ best_val_loss = Inf
    /\ patience_counter = 0
    /\ val_losses = <<>>
    /\ model_weights = None
    /\ model_mode = "train"
    /\ forward_log = {}
    /\ best_model_pth = NoFile

(***************************************************************************)
(* The API load test: test_api_async and test_single_case.                 *)
(*                                                                         *)
(* asyncio runs one coroutine at a time and switches at an await: the      *)
(* tasks take their steps while test_api_async sleeps or waits in gather.  *)
(* The payload of case t is t.                                             *)
(***************************************************************************)
Cases == 1..n_cases

\* what can happen to the request of a case: a 200 whose body parses, a
\* 200 whose body does not (response.json() raises), another status, the
\* 10 s timeout (asyncio.TimeoutError), any other exception of the post
Outcomes == {"ok", "bad_json", "bad_status", "timeout", "exception"}

\* the mutant of case_result: the try block ends before response.json()
case_result_json_uncaught(t, o) ==
    CASE o = "ok" ->
            [raised |-> FALSE, success |-> TRUE, payload |-> t, error |-> "none"]
      [] o = "bad_status" ->
            [raised |-> FALSE, success |-> FALSE, payload |-> t,
             error |-> "status_code"]
      [] o = "bad_json" ->
            [raised |-> TRUE, success |-> FALSE, payload |-> t,
             error |-> "exception"]
      [] OTHER ->
            [raised |-> FALSE, success |-> FALSE, payload |-> t,
             error |-> "exception"]

\* what test_single_case ends with for a request that went as o: the dict
\* it returns ({"success": True, "payload"} or {"success": False,
\* "error": {..., "payload"}}); `except Exception` catches every raise
case_result(t, o) ==
    CASE o = "ok" ->
            [raised |-> FALSE, success |-> TRUE, payload |-> t, error |-> "none"]
      [] o = "bad_status" ->
            [raised |-> FALSE, success |-> FALSE, payload |-> t,
             error |-> "status_code"]
      [] OTHER ->
            [raised |-> FALSE, success |-> FALSE, payload |-> t,
             error |-> "exception"]

NoResult == [raised |-> FALSE, success |-> FALSE, payload |-> 0, error |-> "pending"]

RECURSIVE Tally(_, _)
\* the loop over all_results, from the counts acc
Tally(all_results, acc) ==
    IF all_results = <<>>
    THEN acc
    ELSE Tally(Tail(all_results),
               IF Head(all_results).success
               THEN [acc EXCEPT !.successful = @ + 1]
               ELSE [acc EXCEPT !.failed = @ + 1,
                                !.errors = Append(@, [kind |-> Head(all_results).error,
                                                      payload |-> Head(all_results).payload])])

\* the loop body for index loop_i when no sleep is due:
\* asyncio.create_task(test_single_case(...)); tasks.append(task)
CreateTask ==
    /\ api_pc = "create"
    /\ loop_i < n_cases
    /\ ~(loop_i > 0 /\ loop_i % max_concurrent = 0)
    /\ task_pc' = [task_pc EXCEPT ![loop_i + 1] = "waiting"]
    /\ loop_i' = loop_i + 1
    /\ UNCHANGED <<api_pc, n_cases, max_concurrent, semaphore, task_result,
                   outcome, results, flatVars, predVars, fileVars, pipeVars, genVars>>

\* if loop_i > 0 and loop_i % max_concurrent == 0: await asyncio.sleep(0.1)
Sleep ==
    /\ api_pc = "create"
    /\ loop_i < n_cases
    /\ loop_i > 0 /\ loop_i % max_concurrent = 0
    /\ api_pc' = "sleep"
    /\ UNCHANGED <<n_cases, max_concurrent, loop_i, semaphore, task_pc,
                   task_result, outcome, results,
                   flatVars, predVars, fileVars, pipeVars, genVars>>

\* the sleep is over: the task of index loop_i is created
WakeUp ==
    /\ api_pc = "sleep"
    /\ task_pc' = [task_pc EXCEPT ![loop_i + 1] = "waiting"]
    /\ loop_i' = loop_i + 1
    /\ api_pc' = "create"
    /\ UNCHANGED <<n_cases, max_concurrent, semaphore, task_result,
                   outcome, results, flatVars, predVars, fileVars, pipeVars, genVars>>

\* all_results = await asyncio.gather(*tasks): the loop is over
StartGather ==
    /\ api_pc = "create"
    /\ loop_i = n_cases
    /\ api_pc' = "gather"
    /\ UNCHANGED <<n_cases, max_concurrent, loop_i, semaphore, task_pc,
                   task_result, outcome, results,
                   flatVars, predVars, fileVars, pipeVars, genVars>>

TasksMayRun == api_pc \in {"sleep", "gather"}

\* the mutant of CanAcquire: the semaphore never makes a task wait
CanAcquireAlways(value) == TRUE

\* asyncio.Semaphore.acquire returns at once while the value is above
\* zero and waits otherwise
CanAcquire(value) == value > 0

\* async with semaphore: the task gets a permit and posts its request
TaskAcquire(t) ==
    /\ TasksMayRun
    /\ task_pc[t] = "waiting"
    /\ CanAcquire(semaphore)
    /\ semaphore' = semaphore - 1
    /\ task_pc' = [task_pc EXCEPT ![t] = "posted"]
    /\ UNCHANGED <<api_pc, n_cases, max_concurrent, loop_i, task_result,
                   outcome, results, flatVars, predVars, fileVars, pipeVars, genVars>>

\* the mutant of SemaphoreRelease: the permit is not given back
SemaphoreReleaseLeaked(value) == value

\* the exit of `async with semaphore`, on return and on exception alike:
\* semaphore.release()
SemaphoreRelease(value) == value + 1

\* the coroutine of task t ends: its result is set and, leaving the
\* `async with semaphore` block, it gives the permit back
TaskEnds(t, o) ==
    /\ outcome' = [outcome EXCEPT ![t] = o]
    /\ task_result' = [task_result EXCEPT ![t] = case_result(t, o)]
    /\ task_pc' = [task_pc EXCEPT ![t] = "done"]
    /\ semaphore' = SemaphoreRelease(semaphore)

\* session.post(...) and response.text() are over: a status other than
\* 200, a timeout or an exception ends the task; a 200 goes on to
\* await response.json()
TaskRespond(t) ==
    /\ TasksMayRun
    /\ task_pc[t] = "posted"
    /\ \E o \in {"status_200", "bad_status", "timeout", "exception"} :
          IF o = "status_200"
          THEN /\ task_pc' = [task_pc EXCEPT ![t] = "parsing"]
               /\ UNCHANGED <<semaphore, task_result, outcome>>
          ELSE TaskEnds(t, o)
    /\ UNCHANGED <<api_pc, n_cases, max_concurrent, loop_i, results,
                   flatVars, predVars, fileVars, pipeVars, genVars>>

\* response_data = await response.json() and the summary: the body parses
\* to a dict, or an exception is raised and caught
TaskParse(t) ==
    /\ TasksMayRun
    /\ task_pc[t] = "parsing"
    /\ \E o \in {"ok", "bad_json"} : TaskEnds(t, o)
    /\ UNCHANGED <<api_pc, n_cases, max_concurrent, loop_i, results,
                   flatVars, predVars, fileVars, pipeVars, genVars>>

\* gather is over: it returns the results in task order once every task
\* is done, or re-raises the first exception a task raised, which ends
\* test_api_async; otherwise the results are tallied and returned
GatherReturn ==
    /\ api_pc = "gather"
    /\ \/ \A t \in Cases : task_pc[t] = "done"
       \/ \E t \in Cases : task_pc[t] = "done" /\ task_result[t].raised
    /\ IF \E t \in Cases : task_pc[t] = "done" /\ task_result[t].raised
       THEN /\ api_pc' = "aborted"
            /\ UNCHANGED results
       ELSE /\ results' = Tally([t \in Cases |-> task_result[t]], results)
            /\ api_pc' = "returned"
    /\ UNCHANGED <<n_cases, max_concurrent, loop_i, semaphore, task_pc,
                   task_result, outcome,
                   flatVars, predVars, fileVars, pipeVars, genVars>>

\* test_api_async(test_cases, max_concurrent) up to its loop
InitApi ==
    /\ api_pc = "create"
    /\ n_cases \in 0..MaxCases
    /\ max_concurrent \in 1..MaxConcurrent
    /\ loop_i = 0
    /\ semaphore = max_concurrent
    /\ task_pc = [t \in Cases |-> "none"]
    /\ task_result = [t \in Cases |-> NoResult]
    /\ outcome = [t \in Cases |-> "none"]
    /\ results = [successful |-> 0, failed |-> 0, errors |-> <<>>]

IdleApi ==
    /\ api_pc = "idle"
    /\ n_cases = 0
    /\ max_concurrent = 1
    /\ loop_i = 0
    /\ semaphore = 1
    /\ task_pc = <<>>
    /\ task_result = <<>>
    /\ outcome = <<>>
    /\ results = [successful |-> 0, failed |-> 0, errors |-> <<>>]

(***************************************************************************)
(* The synthetic dataset generator:                                        *)
(* generate_comprehensive_synthetic_dataset.                               *)
(***************************************************************************)
RECURSIVE PyRange(_, _, _)
\* list(range(start, stop, step)) for a positive step
PyRange(start, stop, step) ==
    IF start >= stop THEN <<>> ELSE <<start>> \o PyRange(start + step, stop, step)

\* list(itertools.product(a, b, c, d)): the last list varies fastest
Product4(a, b, c, d) ==
    ConcatAll([w \in 1..Len(a) |->
        ConcatAll([x \in 1..Len(b) |->
            ConcatAll([y \in 1..Len(c) |->
                [z \in 1..Len(d) |-> <<a[w], b[x], c[y], d[z]>>]])])])

\* str.lower() on the answers the user may type
PyLower(answer) ==
    CASE answer = "Y" -> "y"
      [] answer = "N" -> "n"
      [] answer = "YES" -> "yes"
      [] OTHER -> answer

Answers == {"y", "Y", "n", "N", "yes", "YES", ""}

\* the mutant of BatchSlice: a batch that is not full is dropped
BatchSliceFullOnly(combos, at, size) ==
    IF at + size > Len(combos) THEN <<>> ELSE SubSeq(combos, at + 1, at + size)

\* combinations[i:i + batch_size]: the slice stops at the end of the list
BatchSlice(combos, at, size) ==
    SubSeq(combos, at + 1, IF at + size > Len(combos) THEN Len(combos) ELSE at + size)

\* predict_batch_self_consumption(model, scaler, ...): one prediction per
\* position, the value the weights give that position's scaled features; a
\* model in training mode would compute it from the whole batch (batch
\* statistics, sampled dropout)
predict_batch_self_consumption(weights, mode, fitted, occupancy_days_list, consumption_list, pv_generation_list, battery_size_list) ==
    LET normalized ==
            [j \in 1..Len(occupancy_days_list) |->
                PyTrueDiv(I(occupancy_days_list[j]), F(500))]
        features ==
            [j \in 1..Len(occupancy_days_list) |->
                <<normalized[j], I(consumption_list[j]),
                  I(pv_generation_list[j]), I(battery_size_list[j])>>]
    IN  [j \in 1..Len(occupancy_days_list) |->
            [k |-> "prediction",
             features |-> features[j],
             scaler |-> fitted,
             weights |-> weights,
             mode |-> mode,
             batch |-> IF mode = "eval" THEN <<>> ELSE features]]

\* the rows one iteration of the batch loop appends
batch_results(weights, mode, fitted, batch) ==
    LET predictions ==
            predict_batch_self_consumption(weights, mode, fitted,
                [j \in 1..Len(batch) |-> batch[j][1]],
                [j \in 1..Len(batch) |-> batch[j][2]],
                [j \in 1..Len(batch) |-> batch[j][3]],
                [j \in 1..Len(batch) |-> batch[j][4]])
    IN  [j \in 1..Len(batch) |->
            [occupancy_days |-> batch[j][1],
             occupancy_days_normalized |-> PyTrueDiv(I(batch[j][1]), F(500)),
             annual_consumption_kwh |-> batch[j][2],
             pv_generation_kwh |-> batch[j][3],
             battery_size_kwh |-> batch[j][4],
             predicted_self_consumption_percentage |-> predictions[j]]]

\* proceed = input(...); if proceed.lower() != 'y': return
GenConfirm ==
    /\ gen_pc = "confirm"
    /\ \E proceed \in Answers :
          gen_pc' = IF PyLower(proceed) # "y" THEN "cancelled" ELSE "load"
    /\ UNCHANGED <<occupancy_days, consumptions, pv_sizes, battery_sizes,
                   gen_model, gen_mode, gen_scaler, combinations,
                   gen_batch_size, gen_i, gen_all_results,
                   flatVars, predVars, fileVars, pipeVars, apiVars>>

\* model, scaler = load_model_and_scaler(): load_state_dict, model.eval(),
\* joblib.load; FileNotFoundError when a file is missing
GenLoad ==
    /\ gen_pc = "load"
    /\ IF final_pv_model_pth = NoFile
       THEN /\ gen_pc' = "FileNotFoundError"
            /\ UNCHANGED <<gen_model, gen_mode, gen_scaler>>
       ELSE IF feature_scaler_pkl = NoFile
       THEN /\ gen_pc' = "FileNotFoundError"
            /\ gen_model' = final_pv_model_pth
            /\ gen_mode' = ModuleEval(gen_mode)
            /\ UNCHANGED gen_scaler
       ELSE /\ gen_model' = final_pv_model_pth
            /\ gen_mode' = ModuleEval(gen_mode)
            /\ gen_scaler' = feature_scaler_pkl
            /\ gen_pc' = "combine"
    /\ UNCHANGED <<occupancy_days, consumptions, pv_sizes, battery_sizes,
                   combinations, gen_batch_size, gen_i, gen_all_results,
                   flatVars, predVars, fileVars, pipeVars, apiVars>>

\* combinations = list(itertools.product(...)); all_results = []
GenCombinations ==
    /\ gen_pc = "combine"
    /\ combinations' =
          Product4(occupancy_days, consumptions, pv_sizes, battery_sizes)
    /\ gen_all_results' = <<>>
    /\ gen_i' = 0
    /\ gen_pc' = "batches"
    /\ UNCHANGED <<occupancy_days, consumptions, pv_sizes, battery_sizes,
                   gen_model, gen_mode, gen_scaler, gen_batch_size,
                   flatVars, predVars, fileVars, pipeVars, apiVars>>

\* one iteration of for i in range(0, len(combinations), batch_size)
GenBatch ==
    /\ gen_pc = "batches"
    /\ gen_i < Len(combinations)
    /\ gen_all_results' =
          gen_all_results \o
          batch_results(gen_model, gen_mode, gen_scaler,
                        BatchSlice(combinations, gen_i, gen_batch_size))
    /\ gen_i' = gen_i + gen_batch_size
    /\ UNCHANGED <<gen_pc, occupancy_days, consumptions, pv_sizes,
                   battery_sizes, gen_model, gen_mode, gen_scaler,
                   combinations, gen_batch_size,
                   flatVars, predVars, fileVars, pipeVars, apiVars>>

\* the loop is over: the DataFrame of all_results, its derived columns,
\* the sort, the CSV, return df (the rows are those of all_results)
GenReturn ==
    /\ gen_pc = "batches"
    /\ gen_i >= Len(combinations)
    /\ gen_pc' = "returned"
    /\ UNCHANGED <<occupancy_days, consumptions, pv_sizes, battery_sizes,
                   gen_model, gen_mode, gen_scaler, combinations,
                   gen_batch_size, gen_i, gen_all_results,
                   flatVars, predVars, fileVars, pipeVars, apiVars>>

\* the generator about to ask for confirmation: the ranges keep the code's
\* start and step and hold 1..MaxValues values each
InitGen ==
    /\ gen_pc = "confirm"
    /\ \E n \in 1..MaxValues : occupancy_days = PyRange(1, 1 + n, 1)
    /\ \E n \in 1..MaxValues :
          consumptions = PyRange(1500, 1500 + 500 * n, 500)
    /\ \E n \in 1..MaxValues : pv_sizes = PyRange(1500, 1500 + 100 * n, 100)
    /\ \E n \in 1..MaxValues : battery_sizes = PyRange(0, n, 1)
    /\ gen_model = None
    /\ gen_mode = "train"
    /\ gen_scaler = None
    /\ combinations = <<>>
    /\ gen_batch_size \in 1..MaxBatchSize
    /\ gen_i = 0
    /\ gen_all_results = <<>>

IdleGen ==
    /\ gen_pc = "idle"
    /\ occupancy_days = <<>>
    /\ consumptions = <<>>
    /\ pv_sizes = <<>>
    /\ battery_sizes = <<>>
    /\ gen_model = None
    /\ gen_mode = "train"
    /\ gen_scaler = None
    /\ combinations = <<>>
    /\ gen_batch_size = 1
    /\ gen_i = 0
    /\ gen_all_results = <<>>

(***************************************************************************)
(* The specifications.                                                     *)
(***************************************************************************)
FlattenInit ==
    InitFlatten /\ IdlePredict /\ IdleFiles /\ IdlePipeline /\ IdleApi
    /\ IdleGen

NextFlatten == FlattenGroup \/ FlattenReturn

SpecFlatten == FlattenInit /\ [][NextFlatten]_vars

PredictInit ==
    /\ IdleFlatten
    /\ InitPredict
    /\ final_pv_model_pth \in SavedModels
    /\ feature_scaler_pkl \in SavedScalers
    /\ IdlePipeline
    /\ IdleApi
    /\ IdleGen

NextPredict ==
    PredictLookup \/ PredictLoadModel \/ PredictLoadScaler \/ PredictForward

SpecPredict == PredictInit /\ [][NextPredict]_vars

\* main() on a table of MaxRows rows, the seeded shuffles taken to be the
\* identity, every validation loss possible at every epoch
Init ==
    /\ IdleFlatten /\ IdlePredict /\ IdleFiles /\ IdleApi /\ IdleGen
    /\ InitPipeline
    /\ n_rows = MaxRows
    /\ rng_free = FALSE
    /\ loss_env = Floats

Next ==
    \/ FitScaler
    \/ TrainTestSplit
    \/ BeginCV
    \/ FoldStart
    \/ TrainPass
    \/ ValidatePass
    \/ LoadBest
    \/ FoldEvaluate
    \/ FinalStart
    \/ FinalEvaluate
    \/ SaveArtifacts

Spec == Init /\ [][Next]_vars

\* main() as above, never suspended for ever: each of its steps is a finite
\* computation
FairSpec == Init /\ [][Next]_vars /\ WF_vars(Next)

\* main() on a table of any size up to MaxRows, every outcome of the two
\* shuffles, the validation loss always 0
DataInit ==
    /\ IdleFlatten /\ IdlePredict /\ IdleFiles /\ IdleApi /\ IdleGen
    /\ InitPipeline
    /\ n_rows \in 0..MaxRows
    /\ rng_free = TRUE
    /\ loss_env = {0}

SpecData == DataInit /\ [][Next]_vars

\* test_api_async on up to MaxCases cases
ApiInit ==
    /\ IdleFlatten /\ IdlePredict /\ IdleFiles /\ IdlePipeline /\ IdleGen
    /\ InitApi

NextApi ==
    \/ CreateTask
    \/ Sleep
    \/ WakeUp
    \/ StartGather
    \/ \E t \in Cases : TaskAcquire(t)
    \/ \E t \in Cases : TaskRespond(t)
    \/ \E t \in Cases : TaskParse(t)
    \/ GatherReturn

SpecApi == ApiInit /\ [][NextApi]_vars

\* the steps of test_api_async itself
MainSteps == CreateTask \/ Sleep \/ WakeUp \/ StartGather \/ GatherReturn

\* the load test under a fair event loop: test_api_async is resumed when
\* its sleep or its gather is over, a task waiting for a free permit gets
\* it, and every request ends (the post has a 10 s timeout)
FairSpecApi ==
    /\ ApiInit
    /\ [][NextApi]_vars
    /\ WF_vars(MainSteps)
    /\ \A t \in 1..MaxCases :
          /\ WF_vars(t \in Cases /\ TaskAcquire(t))
          /\ WF_vars(t \in Cases /\ TaskRespond(t))
          /\ WF_vars(t \in Cases /\ TaskParse(t))

\* the generator, in a directory with or without the saved model and scaler
GenInit ==
    /\ IdleFlatten /\ IdlePredict /\ IdlePipeline /\ IdleApi
    /\ final_pv_model_pth \in SavedModels
    /\ feature_scaler_pkl \in SavedScalers
    /\ InitGen

NextGen ==
    \/ GenConfirm
    \/ GenLoad
    \/ GenCombinations
    \/ GenBatch
    \/ GenReturn

SpecGen == GenInit /\ [][NextGen]_vars

\* the programs that run the network, one of them per behaviour: main(),
\* predict_self_consumption or the generator
NetworkInit == Init \/ PredictInit \/ GenInit

NextNetwork == Next \/ NextPredict \/ NextGen

SpecNetwork == NetworkInit /\ [][NextNetwork]_vars

(***************************************************************************)
(* The flattener's properties (SpecFlatten).                               *)
(***************************************************************************)
\* the leaf battery entries of the first n groups of d, in document order,
\* each as its path <<group, consumption range, PV band, battery entry>>
LeafPaths(d, n) ==
    ConcatAll([g \in 1..n |->
      ConcatAll([r \in 1..Len(d[g].consumption_ranges) |->
        ConcatAll([b \in 1..Len(d[g].consumption_ranges[r].bands) |->
          [e \in 1..Len(d[g].consumption_ranges[r].bands[b].batteries) |->
              <<g, r, b, e>>]])])])

RangeAt(d, p) == d[p[1]].consumption_ranges[p[2]]
BandAt(d, p) == RangeAt(d, p).bands[p[3]]
BatteryAt(d, p) == BandAt(d, p).batteries[p[4]]

\* record rec carries the battery entry at path p, untouched
CarriesLeaf(rec, d, p) ==
    /\ NumEq(rec.battery_size, BatteryAt(d, p).size)
    /\ rec.self_consumption_percentage = BatteryAt(d, p).pv_generated_percentage

\* C4: whatever the input mapping, the load ends with one record per leaf
\* battery entry: as many records as the groups, consumption ranges and PV
\* bands hold battery entries, the i-th record carrying the i-th leaf.
C4_FullExpansion ==
    flat_pc \in {"returned", "raised"} =>
        /\ flat_pc = "returned"
        /\ Len(flattened_data) = Len(LeafPaths(data, Len(data)))
        /\ \A i \in 1..Len(flattened_data) :
              CarriesLeaf(flattened_data[i], data, LeafPaths(data, Len(data))[i])

\* the dataset of the specification's end-to-end example
ExampleData ==
    << [consumption_ranges |->
          <<ConsumptionRange(DescHome, I(3000), I(5000),
                             <<PvBand(I(2000), I(4000), 2)>>)>>] >>

\* a record as the tuple of its five values, each in hundredths
RecordValues(rec) ==
    << Hundredths(rec.occupancy_days_normalized),
       Hundredths(rec.annual_consumption),
       Hundredths(rec.pv_generation),
       Hundredths(rec.battery_size),
       Hundredths(rec.self_consumption_percentage) >>

\* C5: every record produced holds, for the battery entry it comes from,
\* occupancy_days / 5, the midpoint of its consumption band, the midpoint
\* of its PV band, the battery size and the percentage unchanged; the
\* example dataset gives (1.0, 4000, 3000, 0, 45.0), (1.0, 4000, 3000, 5, 62.0).
C5_RecordValues ==
    /\ Len(flattened_data) = Len(LeafPaths(data, flat_i))
    /\ \A i \in 1..Len(flattened_data) :
         LET rec == flattened_data[i]
             p == LeafPaths(data, flat_i)[i]
             cons == RangeAt(data, p).annual_consumption
             band == BandAt(data, p)
         IN  /\ Hundredths(rec.occupancy_days_normalized) * 5
                   = Hundredths(rec.occupancy_days_raw)
             /\ Hundredths(rec.annual_consumption) * 2
                   = Hundredths(cons.min) + Hundredths(cons.max)
             /\ Hundredths(rec.pv_generation) * 2
                   = Hundredths(band.pv_min) + Hundredths(band.pv_max)
             /\ CarriesLeaf(rec, data, p)
    /\ (data = ExampleData /\ flat_pc = "returned") =>
          [i \in 1..Len(flattened_data) |-> RecordValues(flattened_data[i])]
            = << <<100, 400000, 300000, 0, 4500>>,
                 <<100, 400000, 300000, 500, 6200>> >>

\* the example dataset has been flattened
C5_Witness ==
    /\ data = ExampleData
    /\ flat_pc = "returned"
    /\ Len(flattened_data) = 2

\* C6: for each of home_all_day, in_half_the_day and out_during_day, the
\* feature the flattener derives (days / 5) is the value the predictor's
\* mapping gives that category.
C6_OccupancyAgrees ==
    \A i \in 1..Len(flattened_data) :
        LET rec == flattened_data[i]
        IN  rec.occupancy_type \in DOMAIN occupancy_mapping =>
              NumEq(rec.occupancy_days_normalized,
                    occupancy_mapping[rec.occupancy_type])

\* a load that produced records of two of the categories, half a day among
\* them
C6_Witness ==
    /\ flat_pc = "returned"
    /\ \E i, j \in 1..Len(flattened_data) :
          /\ flattened_data[i].occupancy_type = "in_half_the_day"
          /\ flattened_data[i].occupancy_days_normalized = F(50)
          /\ flattened_data[j].occupancy_type = "out_during_day"

(***************************************************************************)
(* The predictor's properties (SpecPredict).                               *)
(***************************************************************************)
\* C7: a call whose occupancy_type is none of the three literals ends in
\* the KeyError of the lookup: it never gets past the lookup, returns no
\* prediction and no occupancy value stands in for the missing key.
C7_UnknownKeyFails ==
    pred_in.occupancy_type \notin
        {"home_all_day", "in_half_the_day", "out_during_day"} =>
        /\ pred_pc \in {"call", "KeyError"}
        /\ occupancy_normalized = None
        /\ prediction = None

\* the call with 'full_time_remote' has raised KeyError
C7_Witness ==
    /\ pred_in.occupancy_type = "full_time_remote"
    /\ pred_pc = "KeyError"

(***************************************************************************)
(* train_model's properties (Spec).                                        *)
(***************************************************************************)
\* the loop of train_model is still running
InLoop == pc \in {"train", "validate"}

\* epoch e of the sequence vl improved: its loss is below +inf and below
\* the loss of every earlier epoch (a nan is never the best loss)
ImprovesAt(vl, e) ==
    /\ vl[e] # NaN
    /\ vl[e] < Inf
    /\ \A j \in 1..(e - 1) : vl[j] = NaN \/ vl[e] < vl[j]

\* after an improvement at epoch e, the next p epochs are all strictly
\* worse than the best loss, which stays that of epoch e
WorsensFor(vl, e, p) ==
    /\ ImprovesAt(vl, e)
    /\ e + p <= Len(vl)
    /\ \A j \in (e + 1)..(e + p) : vl[j] # NaN /\ vl[j] > vl[e]

\* C1: when the validation losses improve at epoch e and are then strictly
\* worse than the best loss for `patience` epochs in a row, the loop has
\* stopped at epoch e + patience exactly, and the weights the model holds
\* when train_model returns are those snapshotted at epoch e.
C1_EarlyStopping ==
    \A e \in 1..Len(val_losses) :
        WorsensFor(val_losses, e, patience) =>
            /\ Len(val_losses) = e + patience
            /\ epoch = e + patience
            /\ ~InLoop
            /\ pc # "raised"
            /\ pc = "returned" => model_weights = W(run, e)

\* a run that improved at its second epoch or later and was stopped by
\* its patience before num_epochs
C1_Witness ==
    /\ pc = "returned"
    /\ \E e \in 2..Len(val_losses) :
          /\ WorsensFor(val_losses, e, patience)
          /\ e + patience < num_epochs

\* the earliest epoch of vl with the smallest loss (nan, the encoding's
\* largest value, is smallest only when every loss is nan)
ArgMinEpoch(vl) ==
    CHOOSE e \in 1..Len(vl) :
        /\ \A j \in 1..Len(vl) : vl[e] <= vl[j]
        /\ \A j \in 1..(e - 1) : vl[j] # vl[e]

\* C2: whatever the validation losses, the weights the model holds when
\* train_model returns are the snapshot this run took at the earliest
\* epoch with the smallest validation loss among the epochs it executed.
C2_BestSnapshotRestored ==
    pc = "returned" => model_weights = W(run, ArgMinEpoch(val_losses))

\* C3: no run of the five folds and the final model ends with weights
\* another of these runs produced.
C3_NoLeakAcrossRuns ==
    pc = "returned" => model_weights.run \notin (1..NumRuns) \ {run}

(***************************************************************************)
(* The data flow of main() (SpecData).                                     *)
(***************************************************************************)
\* the rows that are validation rows of some fold of the cross-validation
FoldValidationRows == UNION {folds[f] : f \in 1..Len(folds)}

\* C8: the scaler is fit on training rows only: no row of the held-out
\* test split and no validation row of a fold is among the rows its mean
\* and std were computed from.
C8_ScalerFitOnTrainingRowsOnly ==
    scaler # None =>
        /\ scaler.rows \cap X_test = {}
        /\ scaler.rows \cap FoldValidationRows = {}

\* C9: no row of the test split is in the training or the validation
\* subset of a cross-validation fold, so the loaders every patience update
\* and checkpoint save of a fold is computed from hold no test row.
C9_TestRowsOutOfFolds ==
    /\ \A f \in 1..Len(folds) :
          /\ folds[f] \cap X_test = {}
          /\ (CvInput \ folds[f]) \cap X_test = {}
    /\ (run \in 1..k_folds /\ pc \in {"train", "validate", "load_best", "returned"}) =>
          /\ train_loader \cap X_test = {}
          /\ val_loader \cap X_test = {}

\* the last fold has saved a checkpoint and counted an epoch without
\* improvement, with a test split that holds rows
C9_Witness ==
    /\ run = k_folds
    /\ pc = "returned"
    /\ X_test # {}
    /\ val_loader # {}
    /\ best_model_pth.run = run
    /\ patience_counter > 0


(***************************************************************************)
(* The API load test.                                                      *)
(***************************************************************************)
FailedCases == {t \in Cases : outcome[t] \notin {"none", "ok"}}

ErrorEntriesFor(t) ==
    {j \in 1..Len(results.errors) : results.errors[j].payload = t}

\* C10: whatever happens to each request (a 200, another status, a
\* timeout, any exception, a body that fails to parse after a 200), no
\* case's failure aborts the batch: every finished case has exactly one
\* result, a returned dict that says success exactly for a 200 whose body
\* parsed, and on return successful + failed is the number of test cases
\* and errors holds exactly one entry per failed case and no other.
C10_FailuresNeverAbort ==
    /\ api_pc # "aborted"
    /\ \A t \in Cases :
          task_pc[t] = "done" =>
              /\ ~task_result[t].raised
              /\ task_result[t].payload = t
              /\ task_result[t].success <=> (outcome[t] = "ok")
    /\ api_pc = "returned" =>
          /\ \A t \in Cases : task_pc[t] = "done"
          /\ results.successful + results.failed = n_cases
          /\ results.failed = Cardinality(FailedCases)
          /\ Len(results.errors) = results.failed
          /\ \A t \in Cases :
                Cardinality(ErrorEntriesFor(t)) = IF t \in FailedCases THEN 1 ELSE 0

\* a returned batch of MaxCases cases in which one succeeded, one got a
\* 200 whose body failed to parse and one timed out
C10_Witness ==
    /\ api_pc = "returned"
    /\ n_cases = MaxCases
    /\ \E a, b, c \in Cases :
          /\ outcome[a] = "ok"
          /\ outcome[b] = "bad_json"
          /\ outcome[c] = "timeout"
    /\ results.successful = 1
    /\ results.failed = MaxCases - 1


(***************************************************************************)
(* The synthetic dataset generator.                                        *)
(***************************************************************************)
ToSet(seq) == {seq[j] : j \in 1..Len(seq)}

CartesianProduct ==
    ToSet(occupancy_days) \X ToSet(consumptions) \X ToSet(pv_sizes)
        \X ToSet(battery_sizes)

RowCombination(row) ==
    <<row.occupancy_days, row.annual_consumption_kwh, row.pv_generation_kwh,
      row.battery_size_kwh>>

RowsFor(combo) ==
    {j \in 1..Len(gen_all_results) : RowCombination(gen_all_results[j]) = combo}

\* C11: once the user has confirmed, the generator's batches partition the
\* combination list whatever the batch size: after each batch the rows are
\* those of the combinations handled so far, in order, and on return there
\* is exactly one row per element of the Cartesian product occupancy_days x
\* consumptions x pv_sizes x battery_sizes, none skipped or repeated, the
\* final partial batch included; each row's prediction is the one computed
\* from the features of that row's own combination.
C11_OneRowPerCombination ==
    /\ gen_pc \in {"batches", "returned"} =>
          /\ Len(gen_all_results) =
                (IF gen_i > Len(combinations) THEN Len(combinations) ELSE gen_i)
          /\ \A j \in 1..Len(gen_all_results) :
                LET row == gen_all_results[j]
                IN  /\ RowCombination(row) = combinations[j]
                    /\ row.predicted_self_consumption_percentage.features =
                          <<PyTrueDiv(I(row.occupancy_days), F(500)),
                            I(row.annual_consumption_kwh),
                            I(row.pv_generation_kwh),
                            I(row.battery_size_kwh)>>
                    /\ row.predicted_self_consumption_percentage.batch = <<>>
    /\ gen_pc = "returned" =>
          /\ Len(gen_all_results) =
                Len(occupancy_days) * Len(consumptions) * Len(pv_sizes)
                    * Len(battery_sizes)
          /\ \A combo \in CartesianProduct : Cardinality(RowsFor(combo)) = 1
          /\ \A j \in 1..Len(gen_all_results) :
                RowCombination(gen_all_results[j]) \in CartesianProduct

\* a returned run over the largest ranges whose last batch was partial and
\* followed at least one full batch
C11_Witness ==
    /\ gen_pc = "returned"
    /\ Len(combinations) = MaxValues * MaxValues * MaxValues * MaxValues
    /\ gen_batch_size > 1
    /\ Len(combinations) > gen_batch_size
    /\ Len(combinations) % gen_batch_size # 0
    /\ Len(gen_all_results) = Len(combinations)


(***************************************************************************)
(* The early stopping update of train_model.                               *)
(***************************************************************************)
\* this step is the end of an epoch whose validation loss is val_loss
EpochEndsWith(val_loss) ==
    /\ pc = "validate"
    /\ val_losses' = Append(val_losses, val_loss)

\* C12: an epoch whose validation loss equals the best loss seen so far is
\* not an improvement: the checkpoint file is not written, the best loss
\* stays, and the patience counter is not reset but grows by one.
C12_TieIsNoImprovement ==
    [][\A val_loss \in Floats \ {NaN} :
          (EpochEndsWith(val_loss) /\ val_loss = best_val_loss) =>
              /\ best_model_pth' = best_model_pth
              /\ best_val_loss' = best_val_loss
              /\ patience_counter' = patience_counter + 1]_vars

\* an epoch after the first has just ended on a finite loss equal to the
\* best one, which an earlier epoch of this run set and snapshotted
C12_Witness ==
    /\ Len(val_losses) >= 2
    /\ val_losses[Len(val_losses)] = best_val_loss
    /\ best_val_loss < Inf
    /\ patience_counter >= 1
    /\ \E e \in 1..(Len(val_losses) - 1) :
          /\ val_losses[e] = best_val_loss
          /\ best_model_pth = W(run, e)

(***************************************************************************)
(* Termination of train_model.                                             *)
(***************************************************************************)
InTrainModel == pc \in {"train", "validate", "load_best"}

\* the epochs train_model has executed are within its bounds, and the loop
\* is still running only below both of them
EpochBounds ==
    /\ run \in 1..k_folds => num_epochs = EpochsCV
    /\ run = k_folds + 1 => num_epochs = EpochsFinal
    /\ run >= 1 => patience = Patience
    /\ epoch <= num_epochs
    /\ Len(val_losses) = epoch
    /\ patience_counter <= patience
    /\ InLoop => patience_counter < patience /\ epoch < num_epochs
    /\ pc \in {"load_best", "returned"} =>
          patience_counter = patience \/ epoch = num_epochs

\* C13: train_model always terminates: it executes at most num_epochs
\* epochs (EpochsCV in a fold, EpochsFinal for the final model), it leaves
\* the loop at the first epoch at which the patience counter reaches
\* `patience`, no epoch is executed after that, and every call ends (it
\* returns or raises).
C13_TrainModelTerminates ==
    /\ []EpochBounds
    /\ [](InTrainModel ~> pc \in {"returned", "raised"})

\* the final model's run used all of its epochs without being stopped
C13_Witness ==
    /\ pc = "returned"
    /\ run = k_folds + 1
    /\ epoch = EpochsFinal
    /\ patience_counter < patience

(***************************************************************************)
(* The use of the held-out test split.                                     *)
(***************************************************************************)
\* the rows whose losses decide the patience counter and the checkpoint of
\* the call of train_model in progress
DecisionRows == IF run >= 1 THEN val_loader ELSE {}

\* C14: the held-out test split is used for final reporting only: in no
\* call of train_model made by main are the patience and checkpoint
\* decisions computed from losses on test rows, so the weights saved as
\* the final model were not selected by them.
C14_TestSplitOnlyForReporting ==
    /\ DecisionRows \cap X_test = {}
    /\ final_pv_model_pth # NoFile => val_loader \cap X_test = {}

(***************************************************************************)
(* Occupancy descriptors in the flattener.                                 *)
(***************************************************************************)
Matches(desc) ==
    Contains(PatHome, desc) \/ Contains(PatHalf, desc) \/ Contains(PatOut, desc)

\* group g of the input has a descriptor (the one get_occupancy_info
\* reads, that of its first consumption range) and no pattern occurs in it
UnmatchedGroup(g) ==
    /\ data[g].consumption_ranges # <<>>
    /\ ~Matches(data[g].consumption_ranges[1].occupancy.type)

\* the positions in flattened_data of the records of group g
RecordsOfGroup(g) ==
    {i \in 1..Len(flattened_data) : LeafPaths(data, flat_i)[i][1] = g}

LeavesOfGroup(g) ==
    {i \in 1..Len(LeafPaths(data, Len(data))) :
        LeafPaths(data, Len(data))[i][1] = g}

\* C15: a group whose occupancy descriptor contains none of 'Home all
\* day', 'half the day', 'Out during the day' (case-sensitively) never
\* fails the load: its iteration does not raise, every one of its leaf
\* battery entries gets a record, and each of these records has category
\* 'unknown' with 2.5 days, 0.5 once normalized.
C15_UnknownDescriptorDegrades ==
    \A g \in 1..Len(data) :
        UnmatchedGroup(g) =>
            /\ flat_pc = "raised" => flat_i + 1 # g
            /\ flat_i >= g =>
                  Cardinality(RecordsOfGroup(g)) = Cardinality(LeavesOfGroup(g))
            /\ \A i \in RecordsOfGroup(g) :
                  /\ flattened_data[i].occupancy_type = "unknown"
                  /\ flattened_data[i].occupancy_days_raw = F(250)
                  /\ flattened_data[i].occupancy_days_normalized = F(50)

\* a finished load whose first group has the descriptor 'home all day' in
\* lower case and several battery entries, all emitted
C15_Witness ==
    /\ flat_pc = "returned"
    /\ Len(data) >= 1
    /\ data[1].consumption_ranges # <<>>
    /\ data[1].consumption_ranges[1].occupancy.type = DescLower
    /\ UnmatchedGroup(1)
    /\ Cardinality(RecordsOfGroup(1)) >= 2

(***************************************************************************)
(* The mode of the network at its forward passes.                          *)
(***************************************************************************)
\* C16: every forward pass that produces a prediction or an evaluation
\* metric (the validation pass of an epoch, the evaluation of a fold, the
\* final evaluation, the synthetic data of main, predict_self_consumption,
\* every batch of the generator) is made in inference mode, and the only
\* forward passes in training mode are those of the training pass of an
\* epoch: between calls of train_model's epoch loop the model of main is
\* never left in training mode.
C16_InferenceModeWhenPredicting ==
    /\ \A p \in forward_log : p.mode = "train" <=> p.kind = "training"
    /\ (run >= 1 /\ model_mode = "train") => pc \in {"train", "validate", "raised"}
    /\ prediction # None => prediction.mode = "eval"
    /\ \A j \in 1..Len(gen_all_results) :
          gen_all_results[j].predicted_self_consumption_percentage.mode = "eval"

\* main() has finished: it made forward passes of all five kinds, the
\* training ones in training mode
C16_Witness ==
    /\ pc = "done"
    /\ {p.kind : p \in forward_log} =
          {"training", "validation", "fold_evaluation", "final_evaluation",
           "synthetic"}
    /\ [kind |-> "training", mode |-> "train"] \in forward_log

(***************************************************************************)
(* The semaphore of the API load test.                                     *)
(***************************************************************************)
\* the tasks inside `async with semaphore`: a permit taken, not yet given
\* back
InFlight == {t \in Cases : task_pc[t] \in {"posted", "parsing"}}

\* C17: under every interleaving of the tasks, the number of tasks between
\* acquiring and releasing the semaphore, those with a request in flight,
\* never exceeds max_concurrent, however many tasks have been created; the
\* free permits and the tasks in flight always add up to max_concurrent.
C17_BoundedConcurrency ==
    /\ Cardinality(InFlight) <= max_concurrent
    /\ semaphore >= 0
    /\ api_pc # "idle" => semaphore + Cardinality(InFlight) = max_concurrent

\* every task has been created, max_concurrent > 1 of them hold all the
\* permits and another one is waiting for one
C17_Witness ==
    /\ api_pc = "gather"
    /\ max_concurrent = MaxConcurrent
    /\ max_concurrent > 1
    /\ Cardinality(InFlight) = max_concurrent
    /\ semaphore = 0
    /\ \E t \in Cases : task_pc[t] = "waiting"

(***************************************************************************)
(* The invariant of the epoch loop of train_model.                         *)
(***************************************************************************)
\* the smallest validation loss of the epochs in vl; +inf, the value
\* best_val_loss starts from, when no epoch has a loss that is a number
MinLossSoFar(vl) ==
    LET numbers == {Inf} \cup {vl[j] : j \in {e \in 1..Len(vl) : vl[e] # NaN}}
    IN  CHOOSE m \in numbers : \A x \in numbers : m <= x

\* the last epoch of vl that strictly improved on all the epochs before
\* it, 0 when no epoch has
LastImprovement(vl) ==
    LET improving == {0} \cup {e \in 1..Len(vl) : ImprovesAt(vl, e)}
    IN  CHOOSE e \in improving : \A x \in improving : x <= e

\* C18: at every epoch boundary of a call of train_model, best_val_loss is
\* the minimum validation loss over the epochs executed so far,
\* patience_counter is the number of epochs executed since the most recent
\* strict improvement, 0 <= patience_counter <= patience, and the
\* checkpoint file was last written at the epoch of that most recent
\* strict improvement (not at all by this call when no epoch has improved).
C18_EpochLoopInvariant ==
    (run >= 1 /\ pc \in {"train", "validate", "load_best", "returned"}) =>
        /\ best_val_loss = MinLossSoFar(val_losses)
        /\ patience_counter = Len(val_losses) - LastImprovement(val_losses)
        /\ 0 <= patience_counter
        /\ patience_counter <= patience
        /\ LastImprovement(val_losses) > 0 =>
              best_model_pth = W(run, LastImprovement(val_losses))
        /\ LastImprovement(val_losses) = 0 =>
              \/ best_model_pth = NoFile
              \/ best_model_pth.run # run

\* the loop is at an epoch boundary after a second strict improvement at
\* epoch 2 or later and at least one epoch without improvement since
C18_Witness ==
    /\ pc = "train"
    /\ run >= 1
    /\ Len(val_losses) >= 3
    /\ ImprovesAt(val_losses, 1)
    /\ LastImprovement(val_losses) >= 2
    /\ patience_counter >= 1

(***************************************************************************)
(* The occupancy of each record.                                           *)
(***************************************************************************)
\* the category the three substring tests give a descriptor
CategoryOf(desc) ==
    IF Contains(PatHome, desc) THEN "home_all_day"
    ELSE IF Contains(PatHalf, desc) THEN "in_half_the_day"
    ELSE IF Contains(PatOut, desc) THEN "out_during_day"
    ELSE "unknown"

\* C19: the occupancy of every record is that of the descriptor of the
\* consumption range the record came from, and a group with no consumption
\* ranges contributes no record and does not fail the load.
C19_OccupancyPerRange ==
    /\ Len(flattened_data) = Len(LeafPaths(data, flat_i))
    /\ \A i \in 1..Len(flattened_data) :
          flattened_data[i].occupancy_type =
              CategoryOf(RangeAt(data, LeafPaths(data, flat_i)[i]).occupancy.type)
    /\ flat_pc # "raised"

(***************************************************************************)
(* Progress of the API load test.                                          *)
(***************************************************************************)
HoldsPermit(t) == t \in Cases /\ task_pc[t] \in {"posted", "parsing"}

Created(t) == t \in Cases /\ task_pc[t] # "none"

Completed(t) == t \in Cases /\ task_pc[t] = "done"

\* C20: when every request ends and the event loop is fair, every task is
\* created, every created task acquires the semaphore and completes, a
\* permit is missing only while a task is inside the semaphore's block
\* (each task gives it back on ending, whatever the outcome of its
\* request), and gather returns with all max_concurrent permits free: no
\* deadlock and no leaked permit.
C20_EveryTaskCompletes ==
    /\ \A t \in 1..MaxCases :
          /\ [](t \in Cases => <>Created(t))
          /\ Created(t) ~> (HoldsPermit(t) \/ Completed(t))
          /\ Created(t) ~> Completed(t)
    /\ [](semaphore = max_concurrent - Cardinality(InFlight))
    /\ <>(api_pc = "returned")
    /\ [](api_pc = "returned" =>
            /\ semaphore = max_concurrent
            /\ \A t \in Cases : task_pc[t] = "done")

\* the batch has returned with every permit free, after more cases than
\* permits, one of them ended by the timeout and one by another exception
C20_Witness ==
    /\ api_pc = "returned"
    /\ n_cases = MaxCases
    /\ max_concurrent < n_cases
    /\ semaphore = max_concurrent
    /\ \E a, b \in Cases : outcome[a] = "timeout" /\ outcome[b] = "exception"

=============================================================================
